---- MODULE Spec2Model ----
(***************************************************************************)
(* Model of the Tic-Tac-Toe session server (src/server.js): the GameRoom   *)
(* class, the two registries (rooms, players) and the socket event         *)
(* handlers.  Every handler runs to completion, so each is one action.     *)
(*                                                                         *)
(* Representation.                                                         *)
(*   - A JavaScript Map is a function whose DOMAIN is the set of its keys. *)
(*   - null is the string "null"; a read past the end of the board array   *)
(*     is the string "undefined".  A Player record's roomId null is 0.     *)
(*   - The board array (indices 0..8) is a sequence (indices 1..9).        *)
(*   - readyForRematch is only ever tested for truthiness, so a missing    *)
(*     field (undefined) is FALSE.                                         *)
(*   - emitted is the list of messages the last handler sent, each with    *)
(*     the socket.io addressing it was sent with (socket.emit, io.emit,    *)
(*     io.to(room).emit, socket.to(room).emit).                            *)
(*   - getPublicRooms is a set: the order of the list is not modelled.     *)
(***************************************************************************)
EXTENDS Integers, Sequences, FiniteSets, TLC

VARIABLES
    rooms,      \* Map roomId -> GameRoom              (server.js:41)
    players,    \* Map socketId -> player info         (server.js:42)
    sockets,    \* per connection: "open" or "closed" (disconnected)
    emitted,    \* messages sent by the last handler
    probe,      \* a board and the checkWinner result for it (SpecWinner)
    asked       \* history: per room id, the connections whose request-rematch
                \* the handler took up since the room's game finished

vars == <<rooms, players, sockets, emitted, probe, asked>>

(***************************************************************************)
(* Bounds of the model.                                                    *)
(***************************************************************************)
NumConns == 2
NumRoomIds == 1
MaxIndex == 4
NumLobbyRoomIds == 2
MaxLobbyIndex == 0

Conns == 1..NumConns
RoomIds == 1..NumRoomIds
Names == {"n"}
\* indices a client may send: the 9 cells and one index past either end
AllIndices == -1..9
RowIndices == 0..MaxIndex
LobbyRoomIds == 1..NumLobbyRoomIds
LobbyIndices == 0..MaxLobbyIndex

Null == "null"
Undefined == "undefined"
NullRoomId == 0
Marks == {"X", "O"}

(***************************************************************************)
(* Map helpers.                                                            *)
(***************************************************************************)
MapSet(m, k, v) == [x \in (DOMAIN m) \cup {k} |-> IF x = k THEN v ELSE m[x]]
MapDelete(m, k) == [x \in (DOMAIN m) \ {k} |-> m[x]]
EmptyMap == [x \in {} |-> 0]

(***************************************************************************)
(* class GameRoom                                                          *)
(***************************************************************************)
EmptyBoard == [i \in 1..9 |-> Null]

GameRoom(id, isPublic, creatorId) ==
    [id |-> id, isPublic |-> isPublic, creatorId |-> creatorId,
     players |-> <<>>, board |-> EmptyBoard, currentPlayer |-> "X",
     status |-> "waiting", winner |-> Null, moves |-> 0]

\* this.board[index]: undefined outside the array
Cell(board, index) == IF index \in 0..8 THEN board[index + 1] ELSE Undefined

\* mutant of addPlayer: the game starts with the first player
addPlayerStartsAtOnce(room, socketId, playerName) ==
    IF Len(room.players) >= 2
    THEN [ret |-> FALSE, room |-> room]
    ELSE LET playerSymbol == IF Len(room.players) = 0 THEN "X" ELSE "O"
             pushed == Append(room.players,
                              [socketId |-> socketId, name |-> playerName,
                               symbol |-> playerSymbol])
         IN [ret |-> TRUE,
             room |-> [room EXCEPT !.players = pushed, !.status = "playing"]]

addPlayer(room, socketId, playerName) ==
    IF Len(room.players) >= 2
    THEN [ret |-> FALSE, room |-> room]
    ELSE LET playerSymbol == IF Len(room.players) = 0 THEN "X" ELSE "O"
             pushed == Append(room.players,
                              [socketId |-> socketId, name |-> playerName,
                               symbol |-> playerSymbol])
         IN [ret |-> TRUE,
             room |-> [room EXCEPT !.players = pushed,
                                   !.status = IF Len(pushed) = 2 THEN "playing"
                                              ELSE @]]

\* mutant of reset: the status is 'waiting' whatever the number of players
resetToWaiting(room) ==
    [room EXCEPT !.board = EmptyBoard,
                 !.currentPlayer = "X",
                 !.status = "waiting",
                 !.winner = Null,
                 !.moves = 0]

\* mutant of reset: the move count is kept
resetKeepsMoves(room) ==
    [room EXCEPT !.board = EmptyBoard,
                 !.currentPlayer = "X",
                 !.status = IF Len(room.players) = 2 THEN "playing" ELSE "waiting",
                 !.winner = Null]

reset(room) ==
    [room EXCEPT !.board = EmptyBoard,
                 !.currentPlayer = "X",
                 !.status = IF Len(room.players) = 2 THEN "playing" ELSE "waiting",
                 !.winner = Null,
                 !.moves = 0]

\* mutant of removePlayer: the room is reset on every removal
removePlayerAlwaysResets(room, socketId) ==
    LET kept == SelectSeq(room.players, LAMBDA p : p.socketId # socketId)
    IN reset([room EXCEPT !.players = kept, !.status = "waiting"])

removePlayer(room, socketId) ==
    LET kept == SelectSeq(room.players, LAMBDA p : p.socketId # socketId)
        r1 == [room EXCEPT !.players = kept]
    IN IF Len(kept) = 0
       THEN reset([r1 EXCEPT !.status = "waiting"])
       ELSE r1

winPatterns ==
    << <<0, 1, 2>>, <<3, 4, 5>>, <<6, 7, 8>>,
       <<0, 3, 6>>, <<1, 4, 7>>, <<2, 5, 8>>,
       <<0, 4, 8>>, <<2, 4, 6>> >>

\* the test of one pattern in the loop of checkWinner
PatternMatched(board, pattern) ==
    /\ Cell(board, pattern[1]) # Null
    /\ Cell(board, pattern[1]) = Cell(board, pattern[2])
    /\ Cell(board, pattern[1]) = Cell(board, pattern[3])

\* mutant of checkWinner: the last pattern [2, 4, 6] is left out of the list
checkWinnerNoAntiDiagonal(board) ==
    LET hits == {k \in 1..(Len(winPatterns) - 1) :
                    PatternMatched(board, winPatterns[k])}
    IN IF hits = {}
       THEN Null
       ELSE LET first == CHOOSE k \in hits : \A j \in hits : k <= j
            IN Cell(board, winPatterns[first][1])

checkWinner(board) ==
    LET hits == {k \in 1..Len(winPatterns) : PatternMatched(board, winPatterns[k])}
    IN IF hits = {}
       THEN Null
       ELSE LET first == CHOOSE k \in hits : \A j \in hits : k <= j
            IN Cell(board, winPatterns[first][1])

\* this.players.find(p => p.socketId === socketId): position of the first
\* matching entry, 0 when there is none
FindPlayer(ps, socketId) ==
    LET hits == {k \in 1..Len(ps) : ps[k].socketId = socketId}
    IN IF hits = {} THEN 0 ELSE CHOOSE k \in hits : \A j \in hits : k <= j

Toggle(mark) == IF mark = "X" THEN "O" ELSE "X"

\* mutant of makeMove: the turn is not checked (any player of the room moves)
makeMoveAnyTurn(room, index, socketId) ==
    IF room.status # "playing" THEN [ret |-> FALSE, room |-> room]
    ELSE IF Cell(room.board, index) # Null THEN [ret |-> FALSE, room |-> room]
    ELSE LET k == FindPlayer(room.players, socketId)
         IN IF k = 0
            THEN [ret |-> FALSE, room |-> room]
            ELSE LET board1 == [room.board EXCEPT ![index + 1] = room.currentPlayer]
                     moves1 == room.moves + 1
                     winner1 == checkWinner(board1)
                     over == winner1 # Null \/ moves1 = 9
                 IN [ret |-> TRUE,
                     room |-> [room EXCEPT
                                 !.board = board1,
                                 !.moves = moves1,
                                 !.winner = winner1,
                                 !.status = IF over THEN "finished" ELSE @,
                                 !.currentPlayer = IF over THEN @ ELSE Toggle(@)]]

\* mutant of makeMove: a full board without a winner does not end the game
makeMoveNoDrawEnd(room, index, socketId) ==
    IF room.status # "playing" THEN [ret |-> FALSE, room |-> room]
    ELSE IF Cell(room.board, index) # Null THEN [ret |-> FALSE, room |-> room]
    ELSE LET k == FindPlayer(room.players, socketId)
         IN IF k = 0 \/ room.players[k].symbol # room.currentPlayer
            THEN [ret |-> FALSE, room |-> room]
            ELSE LET board1 == [room.board EXCEPT ![index + 1] = room.currentPlayer]
                     moves1 == room.moves + 1
                     winner1 == checkWinner(board1)
                     over == winner1 # Null
                 IN [ret |-> TRUE,
                     room |-> [room EXCEPT
                                 !.board = board1,
                                 !.moves = moves1,
                                 !.winner = winner1,
                                 !.status = IF over THEN "finished" ELSE @,
                                 !.currentPlayer = IF over THEN @ ELSE Toggle(@)]]

makeMove(room, index, socketId) ==
    IF room.status # "playing" THEN [ret |-> FALSE, room |-> room]
    ELSE IF Cell(room.board, index) # Null THEN [ret |-> FALSE, room |-> room]
    ELSE LET k == FindPlayer(room.players, socketId)
         IN IF k = 0 \/ room.players[k].symbol # room.currentPlayer
            THEN [ret |-> FALSE, room |-> room]
            ELSE LET board1 == [room.board EXCEPT ![index + 1] = room.currentPlayer]
                     moves1 == room.moves + 1
                     winner1 == checkWinner(board1)
                     over == winner1 # Null \/ moves1 = 9
                 IN [ret |-> TRUE,
                     room |-> [room EXCEPT
                                 !.board = board1,
                                 !.moves = moves1,
                                 !.winner = winner1,
                                 !.status = IF over THEN "finished" ELSE @,
                                 !.currentPlayer = IF over THEN @ ELSE Toggle(@)]]

getPublicInfo(room) ==
    [id |-> room.id, isPublic |-> room.isPublic,
     playersCount |-> Len(room.players), status |-> room.status]

(***************************************************************************)
(* Helper functions and messages                                           *)
(***************************************************************************)
\* mutant of getPublicRooms: the status of a room is not looked at
getPublicRoomsAnyStatus(rs) ==
    {getPublicInfo(rs[r]) : r \in {x \in DOMAIN rs : rs[x].isPublic}}

getPublicRooms(rs) ==
    {getPublicInfo(rs[r]) : r \in {x \in DOMAIN rs : rs[x].isPublic /\ rs[x].status = "waiting"}}

\* addressing of an emit
ToSocket(c) == [kind |-> "socket", room |-> NullRoomId, socket |-> c]
ToAll == [kind |-> "all", room |-> NullRoomId, socket |-> 0]
ToRoom(r) == [kind |-> "room", room |-> r, socket |-> 0]
ToRoomExcept(r, c) == [kind |-> "room-except", room |-> r, socket |-> c]

Msg(event, to, payload) == [event |-> event, to |-> to, payload |-> payload]

\* mutant of RoomState: isDraw looks at the move count alone
RoomStateDrawByCount(room) ==
    [board |-> room.board,
     currentPlayer |-> room.currentPlayer,
     status |-> room.status,
     winner |-> room.winner,
     players |-> [k \in 1..Len(room.players) |->
                    [name |-> room.players[k].name,
                     symbol |-> room.players[k].symbol,
                     isCurrentPlayer |-> room.players[k].symbol = room.currentPlayer]],
     isDraw |-> (room.moves = 9)]

\* the room-state snapshot built by updateRoomState
RoomState(room) ==
    [board |-> room.board,
     currentPlayer |-> room.currentPlayer,
     status |-> room.status,
     winner |-> room.winner,
     players |-> [k \in 1..Len(room.players) |->
                    [name |-> room.players[k].name,
                     symbol |-> room.players[k].symbol,
                     isCurrentPlayer |-> room.players[k].symbol = room.currentPlayer]],
     isDraw |-> (room.moves = 9 /\ room.winner = Null)]

\* the messages updateRoomState(roomId) sends, given the registry rs
updateRoomState(rs, roomId) ==
    IF roomId \notin DOMAIN rs
    THEN <<>>
    ELSE << Msg("game-state", ToRoom(roomId), RoomState(rs[roomId])) >>

PublicRoomsTo(to, rs) == << Msg("public-rooms", to, getPublicRooms(rs)) >>

Open(c) == sockets[c] = "open"

(***************************************************************************)
(* io.on('connection'): the handlers of one socket.  The connection event  *)
(* itself changes no server state, so the sockets of the model are open    *)
(* from the start; a disconnected socket is closed for good (socket ids    *)
(* are never reused).                                                      *)
(***************************************************************************)
JoinLobby(c, playerName) ==
    /\ Open(c)
    /\ players' = MapSet(players, c,
                         [name |-> playerName, roomId |-> NullRoomId,
                          readyForRematch |-> FALSE])
    /\ emitted' = PublicRoomsTo(ToSocket(c), rooms)
    /\ UNCHANGED <<rooms, sockets, probe>>

CreateRoom(c, roomId, isPublic, playerName) ==
    /\ Open(c)
    /\ LET room == addPlayer(GameRoom(roomId, isPublic, c), c, playerName).room
           rooms1 == MapSet(rooms, roomId, room)
       IN /\ rooms' = rooms1
          /\ players' = IF c \in DOMAIN players
                        THEN [players EXCEPT ![c].roomId = roomId]
                        ELSE players
          /\ emitted' = << Msg("room-created", ToSocket(c),
                               [roomId |-> roomId, isPublic |-> isPublic]) >>
                        \o (IF isPublic THEN PublicRoomsTo(ToAll, rooms1) ELSE <<>>)
                        \o updateRoomState(rooms1, roomId)
    /\ UNCHANGED <<sockets, probe>>

ErrorTo(c, message) == << Msg("error", ToSocket(c), [message |-> message]) >>

\* mutant of JoinRoomError: the status of the room is not checked
JoinRoomErrorNoStatus(rs, roomId) ==
    IF roomId \notin DOMAIN rs THEN "Room not found"
    ELSE IF Len(rs[roomId].players) >= 2 THEN "Room is full"
    ELSE Null

\* mutant of JoinRoomError: the status is checked before the player count
JoinRoomErrorStatusFirst(rs, roomId) ==
    IF roomId \notin DOMAIN rs THEN "Room not found"
    ELSE IF rs[roomId].status = "playing" \/ rs[roomId].status = "finished"
         THEN "Game already in progress"
    ELSE IF Len(rs[roomId].players) >= 2 THEN "Room is full"
    ELSE Null

\* mutant of JoinRoomError: a finished game does not refuse the join
JoinRoomErrorFinishedOpen(rs, roomId) ==
    IF roomId \notin DOMAIN rs THEN "Room not found"
    ELSE IF Len(rs[roomId].players) >= 2 THEN "Room is full"
    ELSE IF rs[roomId].status = "playing" THEN "Game already in progress"
    ELSE Null

\* the reason join-room refuses with, Null when it goes on to add the player
JoinRoomError(rs, roomId) ==
    IF roomId \notin DOMAIN rs THEN "Room not found"
    ELSE IF Len(rs[roomId].players) >= 2 THEN "Room is full"
    ELSE IF rs[roomId].status = "playing" \/ rs[roomId].status = "finished"
         THEN "Game already in progress"
    ELSE Null

JoinRoom(c, roomId, playerName) ==
    /\ Open(c)
    /\ LET err == JoinRoomError(rooms, roomId)
       IN IF err # Null
          THEN /\ emitted' = ErrorTo(c, err)
               /\ UNCHANGED <<rooms, players>>
          ELSE LET room == addPlayer(rooms[roomId], c, playerName).room
                   rooms1 == [rooms EXCEPT ![roomId] = room]
               IN /\ rooms' = rooms1
                  /\ players' = IF c \in DOMAIN players
                                THEN [players EXCEPT ![c].roomId = roomId]
                                ELSE players
                  /\ emitted' = << Msg("room-joined", ToSocket(c), [roomId |-> roomId]) >>
                                \o updateRoomState(rooms1, roomId)
                                \o (IF room.isPublic THEN PublicRoomsTo(ToAll, rooms1)
                                    ELSE <<>>)
    /\ UNCHANGED <<sockets, probe>>

\* mutant of MakeMove: the room state is broadcast whatever makeMove returns
MakeMoveAlwaysBroadcasts(c, roomId, index) ==
    /\ Open(c)
    /\ IF roomId \notin DOMAIN rooms
       THEN /\ emitted' = <<>>
            /\ UNCHANGED rooms
       ELSE LET res == makeMove(rooms[roomId], index, c)
                rooms1 == [rooms EXCEPT ![roomId] = res.room]
            IN /\ rooms' = rooms1
               /\ emitted' = updateRoomState(rooms1, roomId)
    /\ UNCHANGED <<players, sockets, probe>>

MakeMove(c, roomId, index) ==
    /\ Open(c)
    /\ IF roomId \notin DOMAIN rooms
       THEN /\ emitted' = <<>>
            /\ UNCHANGED rooms
       ELSE LET res == makeMove(rooms[roomId], index, c)
                rooms1 == [rooms EXCEPT ![roomId] = res.room]
            IN /\ rooms' = rooms1
               /\ emitted' = IF res.ret THEN updateRoomState(rooms1, roomId) ELSE <<>>
    /\ UNCHANGED <<players, sockets, probe>>

\* room.players.every(p => players.get(p.socketId)?.readyForRematch)
AllReady(room, ps) ==
    \A k \in 1..Len(room.players) :
        /\ room.players[k].socketId \in DOMAIN ps
        /\ ps[room.players[k].socketId].readyForRematch

\* room.players.forEach(p => { pl = players.get(p.socketId); if (pl) pl.readyForRematch = false })
ClearReady(room, ps) ==
    [x \in DOMAIN ps |->
        IF \E k \in 1..Len(room.players) : room.players[k].socketId = x
        THEN [ps[x] EXCEPT !.readyForRematch = FALSE]
        ELSE ps[x]]

RequestRematch(c, roomId) ==
    /\ Open(c)
    /\ IF roomId \notin DOMAIN rooms \/ rooms[roomId].status # "finished"
       THEN /\ emitted' = <<>>
            /\ UNCHANGED <<rooms, players>>
       ELSE LET room == rooms[roomId]
                players1 == IF c \in DOMAIN players
                            THEN [players EXCEPT ![c].readyForRematch = TRUE]
                            ELSE players
            IN IF Len(room.players) = 2
               THEN IF AllReady(room, players1)
                    THEN LET rooms1 == [rooms EXCEPT ![roomId] = reset(room)]
                         IN /\ rooms' = rooms1
                            /\ players' = ClearReady(room, players1)
                            /\ emitted' = updateRoomState(rooms1, roomId)
                    ELSE /\ rooms' = rooms
                         /\ players' = players1
                         /\ emitted' = << Msg("rematch-requested",
                                              ToRoomExcept(roomId, c), Null) >>
               ELSE /\ rooms' = rooms
                    /\ players' = players1
                    /\ emitted' = <<>>
    /\ UNCHANGED <<sockets, probe>>

\* what leave-room of c does to the registry and what it sends
LeaveRoomEffect(c) ==
    IF c \notin DOMAIN players \/ players[c].roomId = NullRoomId
    THEN [rooms |-> rooms, emitted |-> <<>>]
    ELSE LET roomId == players[c].roomId
         IN IF roomId \in DOMAIN rooms
            THEN LET room == removePlayer(rooms[roomId], c)
                     rooms1 == [rooms EXCEPT ![roomId] = room]
                     rooms2 == IF Len(room.players) = 0
                               THEN MapDelete(rooms1, roomId)
                               ELSE rooms1
                 IN [rooms |-> rooms2,
                     emitted |-> updateRoomState(rooms1, roomId)
                                 \o (IF room.isPublic
                                     THEN PublicRoomsTo(ToAll, rooms2)
                                     ELSE <<>>)]
            ELSE [rooms |-> rooms, emitted |-> <<>>]

LeaveRoom(c) ==
    /\ Open(c)
    /\ rooms' = LeaveRoomEffect(c).rooms
    /\ emitted' = LeaveRoomEffect(c).emitted
    /\ players' = IF c \notin DOMAIN players \/ players[c].roomId = NullRoomId
                  THEN players
                  ELSE [players EXCEPT ![c].roomId = NullRoomId]
    /\ UNCHANGED <<sockets, probe>>

Disconnect(c) ==
    /\ Open(c)
    /\ IF c \in DOMAIN players /\ players[c].roomId # NullRoomId
          /\ players[c].roomId \in DOMAIN rooms
       THEN LET roomId == players[c].roomId
                room == removePlayer(rooms[roomId], c)
                rooms1 == [rooms EXCEPT ![roomId] = room]
                rooms2 == IF Len(room.players) = 0
                          THEN MapDelete(rooms1, roomId)
                          ELSE rooms1
            IN /\ rooms' = rooms2
               /\ emitted' = updateRoomState(rooms1, roomId)
                             \o (IF Len(room.players) # 0 /\ room.isPublic
                                 THEN PublicRoomsTo(ToAll, rooms2)
                                 ELSE <<>>)
       ELSE /\ emitted' = <<>>
            /\ UNCHANGED rooms
    /\ players' = MapDelete(players, c)
    /\ sockets' = [sockets EXCEPT ![c] = "closed"]
    /\ UNCHANGED probe

(***************************************************************************)
(* Specifications                                                          *)
(***************************************************************************)
Cells == {Null, "X", "O"}
AllBoards == [1..9 -> Cells]

NoProbe == [board |-> EmptyBoard, winner |-> Null, done |-> TRUE]

\* the history asked after a step; (roomId, c) is the request-rematch the
\* step handled, (NullRoomId, 0) when the step is another event
AskedAfter(roomId, c) ==
    [x \in DOMAIN asked |->
        IF x \in DOMAIN rooms' /\ rooms'[x].status = "finished"
        THEN (IF x \in DOMAIN rooms /\ rooms[x].status = "finished"
              THEN asked[x] ELSE {})
             \cup (IF x = roomId THEN {c} ELSE {})
        ELSE {}]

NoRequest == asked' = AskedAfter(NullRoomId, 0)

InitOver(rids) ==
    /\ rooms = EmptyMap
    /\ players = EmptyMap
    /\ sockets = [c \in Conns |-> "open"]
    /\ emitted = <<>>
    /\ probe = NoProbe
    /\ asked = [x \in rids |-> {}]

\* every event, with room ids drawn from rids and cell indices from idxs;
\* generateRoomId may return the id of a live room only if reuse
Events(rids, idxs, reuse) ==
    \E c \in Conns :
        \/ \E n \in Names : JoinLobby(c, n) /\ NoRequest
        \/ \E r \in rids, pub \in BOOLEAN, n \in Names :
              (reuse \/ r \notin DOMAIN rooms) /\ CreateRoom(c, r, pub, n) /\ NoRequest
        \/ \E r \in rids, n \in Names : JoinRoom(c, r, n) /\ NoRequest
        \/ \E r \in rids, i \in idxs : MakeMove(c, r, i) /\ NoRequest
        \/ \E r \in rids : RequestRematch(c, r) /\ asked' = AskedAfter(r, c)
        \/ LeaveRoom(c) /\ NoRequest
        \/ Disconnect(c) /\ NoRequest

\* Spec: every event, on the room ids RoomIds, with moves on the cells
\* 0..MaxIndex (enough for X to complete the top row)
Init == InitOver(RoomIds)
Next == Events(RoomIds, RowIndices, TRUE)
Spec == Init /\ [][Next]_vars

\* SpecFresh: Spec with generateRoomId never returning the id of a live room
NextFresh == Events(RoomIds, RowIndices, FALSE)
SpecFresh == Init /\ [][NextFresh]_vars

\* SpecMoves: Spec with make-move also on the indices past either end of
\* the board
MoveIndices == {-1} \cup RowIndices \cup {9}
NextMoves == Events(RoomIds, MoveIndices, TRUE)
SpecMoves == Init /\ [][NextMoves]_vars

\* SpecRooms: every event, on the room ids LobbyRoomIds, with moves on the
\* cells 0..MaxLobbyIndex (no game finishes)
InitRooms == InitOver(LobbyRoomIds)
NextRooms == Events(LobbyRoomIds, LobbyIndices, TRUE)
SpecRooms == InitRooms /\ [][NextRooms]_vars

\* SpecGame: the games two clients can play in a room: create-room,
\* join-room and make-move with every cell and the out-of-range indices
NextGame ==
    \E c \in Conns :
        \/ \E r \in RoomIds, pub \in BOOLEAN, n \in Names :
              CreateRoom(c, r, pub, n) /\ NoRequest
        \/ \E r \in RoomIds, n \in Names : JoinRoom(c, r, n) /\ NoRequest
        \/ \E r \in RoomIds, i \in AllIndices : MakeMove(c, r, i) /\ NoRequest

SpecGame == Init /\ [][NextGame]_vars

\* SpecWinner: SpecGame, and beside it checkWinner applied to each of the
\* 3^9 boards (a run either plays or checks one board)
CheckBoard ==
    /\ ~probe.done
    /\ probe' = [probe EXCEPT !.winner = checkWinner(probe.board), !.done = TRUE]
    /\ UNCHANGED <<rooms, players, sockets, emitted, asked>>

InitWinner ==
    /\ rooms = EmptyMap
    /\ players = EmptyMap
    /\ sockets = [c \in Conns |-> "open"]
    /\ emitted = <<>>
    /\ asked = [x \in RoomIds |-> {}]
    /\ probe \in {NoProbe} \cup
                 {[board |-> b, winner |-> Null, done |-> FALSE] : b \in AllBoards}

NextWinner ==
    \/ probe = NoProbe /\ NextGame
    \/ CheckBoard

SpecWinner == InitWinner /\ [][NextWinner]_vars

(***************************************************************************)
(* Vocabulary of the properties                                            *)
(***************************************************************************)
\* the 8 triples of the board (positions 1..9): rows, columns, diagonals
Lines ==
    {{3 * k + 1, 3 * k + 2, 3 * k + 3} : k \in 0..2}
    \cup {{k, k + 3, k + 6} : k \in 1..3}
    \cup {{1, 5, 9}, {3, 5, 7}}

HasLine(board, mark) == \E L \in Lines : \A x \in L : board[x] = mark

Filled(board) == Cardinality({x \in 1..9 : board[x] # Null})

\* the game-state snapshots among the messages of the last handler
Snapshots == {emitted[k].payload : k \in {j \in 1..Len(emitted) : emitted[j].event = "game-state"}}

\* the move (index, socketId) is legal in room, as the rules state it
LegalMove(room, index, socketId) ==
    /\ room.status = "playing"
    /\ index \in 0..8
    /\ room.board[index + 1] = Null
    /\ \E k \in 1..Len(room.players) :
          /\ room.players[k].socketId = socketId
          /\ \A j \in 1..(k - 1) : room.players[j].socketId # socketId
          /\ room.players[k].symbol = room.currentPlayer

(***************************************************************************)
(* C1. In every reachable room, for every index (the 9 cells and the       *)
(* indices past either end) and every connection, makeMove returns true    *)
(* exactly when the status is playing, the index is a cell, the cell is    *)
(* empty and the entry found for the connection has the mark whose turn    *)
(* it is; when it returns false the room (board, moves, currentPlayer,     *)
(* status, winner) is what it was.                                         *)
(***************************************************************************)
C1_MoveLegality ==
    \A r \in DOMAIN rooms : \A i \in AllIndices : \A c \in Conns :
        LET res == makeMove(rooms[r], i, c)
        IN /\ res.ret = LegalMove(rooms[r], i, c)
           /\ ~res.ret => res.room = rooms[r]

\* a game under way in which some moves are refused for the turn alone and
\* others are accepted
C1_Witness ==
    \E r \in DOMAIN rooms :
        /\ rooms[r].status = "playing"
        /\ rooms[r].moves > 0
        /\ \E i \in 0..8, c \in Conns :
              /\ rooms[r].board[i + 1] = Null
              /\ FindPlayer(rooms[r].players, c) # 0
              /\ ~makeMove(rooms[r], i, c).ret
        /\ \E i \in 0..8, c \in Conns : makeMove(rooms[r], i, c).ret

(***************************************************************************)
(* C3. For each of the 3^9 boards checkWinner returns a mark only if that  *)
(* mark fills one of the 8 triples, and returns null exactly when no       *)
(* triple is filled by one mark; on every board reached by play at most    *)
(* one mark fills a triple, so there checkWinner returns M exactly when M  *)
(* fills a triple.                                                         *)
(***************************************************************************)
C3_WinnerDetection ==
    /\ probe.done =>
          /\ probe.winner \in Marks \cup {Null}
          /\ \A m \in Marks : probe.winner = m => HasLine(probe.board, m)
          /\ probe.winner = Null <=> \A m \in Marks : ~HasLine(probe.board, m)
    /\ \A r \in DOMAIN rooms :
          /\ ~(HasLine(rooms[r].board, "X") /\ HasLine(rooms[r].board, "O"))
          /\ \A m \in Marks :
                checkWinner(rooms[r].board) = m <=> HasLine(rooms[r].board, m)

\* checkWinner has answered for a board on which both marks fill a triple
C3_Witness ==
    /\ probe.done
    /\ HasLine(probe.board, "X")
    /\ HasLine(probe.board, "O")
    /\ probe.winner \in Marks

(***************************************************************************)
(* C4. In every game-state snapshot sent, isDraw is true exactly when all  *)
(* 9 cells are taken (9 moves were made) and winner is null; isDraw never  *)
(* comes with a winner, and a full board with a filled triple has the      *)
(* winner set and isDraw false.                                            *)
(***************************************************************************)
C4_DrawSnapshot ==
    \A s \in Snapshots :
        /\ s.isDraw <=> (Filled(s.board) = 9 /\ s.winner = Null)
        /\ ~(s.isDraw /\ s.winner # Null)
        /\ (Filled(s.board) = 9 /\ \E m \in Marks : HasLine(s.board, m))
              => (s.winner # Null /\ ~s.isDraw)

\* a snapshot of a 9th move that completes a line
C4_Witness ==
    \E s \in Snapshots :
        /\ Filled(s.board) = 9
        /\ s.winner # Null
        /\ ~s.isDraw

\* a snapshot of a drawn game
C4_DrawReached == \E s \in Snapshots : s.isDraw

\* the connection ids in a room's player list
Members(room) == {room.players[k].socketId : k \in 1..Len(room.players)}

(***************************************************************************)
(* C2 (as claimed). A request-rematch resets a room only if both of its    *)
(* two players have issued request-rematch for that finished game since    *)
(* the room's last reset; a request by one of them alone leaves the room   *)
(* finished, its board unchanged, and sends only 'rematch-requested' to    *)
(* the room except the caller.                                             *)
(***************************************************************************)
C2_RematchNeedsBoth ==
    [][\A c \in Conns : \A r \in DOMAIN rooms :
          (/\ RequestRematch(c, r)
           /\ rooms[r].status = "finished"
           /\ Len(rooms[r].players) = 2)
          => IF Members(rooms[r]) \subseteq asked[r] \cup {c}
             THEN TRUE
             ELSE /\ rooms' = rooms
                  /\ emitted' = << Msg("rematch-requested", ToRoomExcept(r, c), Null) >>
      ]_vars

(***************************************************************************)
(* C5. removePlayer on any reachable room: when no player is left the      *)
(* room is waiting with 9 empty cells, currentPlayer X, no winner and 0    *)
(* moves; when one player is left the board, moves, currentPlayer, winner  *)
(* and status are what they were and the remaining entry (connection,      *)
(* name, mark) is an entry the room had.                                   *)
(***************************************************************************)
C5_RemovePlayerFrame ==
    \A r \in DOMAIN rooms : \A c \in Conns :
        LET before == rooms[r]
            after == removePlayer(before, c)
        IN /\ Len(after.players) = 0 =>
                /\ after.status = "waiting"
                /\ \A x \in 1..9 : after.board[x] = Null
                /\ after.currentPlayer = "X"
                /\ after.winner = Null
                /\ after.moves = 0
           /\ Len(after.players) = 1 =>
                /\ after.board = before.board
                /\ after.moves = before.moves
                /\ after.currentPlayer = before.currentPlayer
                /\ after.winner = before.winner
                /\ after.status = before.status
                /\ \E k \in 1..Len(before.players) :
                      /\ before.players[k] = after.players[1]
                      /\ before.players[k].socketId # c

\* a room left with one player by a removal, its game kept as it was
C5_Witness ==
    \E r \in DOMAIN rooms :
        /\ Len(rooms[r].players) = 1
        /\ rooms[r].status = "playing"
        /\ rooms[r].moves > 0
        /\ \E k \in 1..Len(emitted) :
              /\ emitted[k].event = "game-state"
              /\ Len(emitted[k].payload.players) = 1

(***************************************************************************)
(* C6 (as claimed). Every room of the registry with fewer than 2 players   *)
(* has status 'waiting'.                                                   *)
(***************************************************************************)
C6_FewPlayersWaiting ==
    \A r \in DOMAIN rooms : Len(rooms[r].players) < 2 => rooms[r].status = "waiting"

(***************************************************************************)
(* C6 (amended). After every handler, a room of the registry with fewer    *)
(* than 2 players has status 'waiting' unless the room already was         *)
(* 'playing' or 'finished' before the handler ran: a room keeps the status *)
(* of its game when one of its two players is removed, and no handler      *)
(* starts a game in a room with fewer than 2 players.                      *)
(***************************************************************************)
C6_FewPlayersNeverStart ==
    [][\A r \in DOMAIN rooms' :
          Len(rooms'[r].players) < 2 =>
              \/ rooms'[r].status = "waiting"
              \/ /\ r \in DOMAIN rooms
                 /\ rooms[r].status # "waiting"
      ]_vars

\* a finished game whose room has one player left
C6_Witness ==
    \E r \in DOMAIN rooms :
        /\ Len(rooms[r].players) = 1
        /\ rooms[r].status = "finished"

(***************************************************************************)
(* C7. Every room with exactly 2 players has status 'playing' or           *)
(* 'finished', and a room goes from 'waiting' to 'playing' only in a       *)
(* join-room step that adds its second player.                             *)
(***************************************************************************)
C7_TwoPlayersStarted ==
    /\ [](\A r \in DOMAIN rooms :
            Len(rooms[r].players) = 2 => rooms[r].status \in {"playing", "finished"})
    /\ [][\A r \in (DOMAIN rooms) \cap (DOMAIN rooms') :
             (rooms[r].status = "waiting" /\ rooms'[r].status # "waiting")
             => /\ rooms'[r].status = "playing"
                /\ Len(rooms[r].players) = 1
                /\ Len(rooms'[r].players) = 2
                /\ \E c \in Conns, n \in Names : JoinRoom(c, r, n)
       ]_vars

\* two players again in a game started anew by a rematch
C7_Witness ==
    \E r \in DOMAIN rooms :
        /\ Len(rooms[r].players) = 2
        /\ rooms[r].status = "playing"
        /\ rooms[r].moves = 0
        /\ \E k \in 1..Len(emitted) :
              emitted[k].event = "game-state" /\ Len(emitted) = 1

(***************************************************************************)
(* C8. In every room with two players the first entry has mark X and the   *)
(* second mark O; and a handler changes the player list of a room only by  *)
(* removing entries (the others keep their order) or by appending one      *)
(* entry, unless create-room puts a new room under the id.                 *)
(***************************************************************************)
C8_MarksAndOrder ==
    /\ [](\A r \in DOMAIN rooms :
            Len(rooms[r].players) = 2 =>
                /\ rooms[r].players[1].symbol = "X"
                /\ rooms[r].players[2].symbol = "O")
    /\ [][\A r \in (DOMAIN rooms) \cap (DOMAIN rooms') :
             LET p == rooms[r].players
                 q == rooms'[r].players
             IN \/ q = p
                \/ \E c \in Conns : q = SelectSeq(p, LAMBDA e : e.socketId # c)
                \/ Len(q) = Len(p) + 1 /\ SubSeq(q, 1, Len(p)) = p
                \/ \E c \in Conns, pub \in BOOLEAN, n \in Names : CreateRoom(c, r, pub, n)
       ]_vars

\* two different connections hold the two seats of a game with moves made,
\* and a connection has a rematch request pending
C8_Witness ==
    \E r \in DOMAIN rooms :
        /\ Len(rooms[r].players) = 2
        /\ rooms[r].players[1].socketId # rooms[r].players[2].socketId
        /\ rooms[r].moves > 0
        /\ \E c \in DOMAIN players : players[c].readyForRematch

(***************************************************************************)
(* C9. Every 'public-rooms' message sent lists exactly the rooms of the    *)
(* registry (as it is when the handler ends) that are public and           *)
(* 'waiting', and getPublicRooms lists no room with 2 players; a room in   *)
(* which a second player has joined is listed by no later query: an id     *)
(* that was not 'waiting' is listed again only when create-room has put a  *)
(* new public room under that id; the broadcast of a successful join into  *)
(* a public room does not list that room.                                  *)
(***************************************************************************)
PublicWaiting ==
    {[id |-> r, isPublic |-> TRUE, playersCount |-> Len(rooms[r].players),
      status |-> "waiting"] :
        r \in {x \in DOMAIN rooms : rooms[x].isPublic /\ rooms[x].status = "waiting"}}

C9_PublicRoomsList ==
    /\ [](/\ getPublicRooms(rooms) = PublicWaiting
          /\ \A i \in getPublicRooms(rooms) : i.playersCount < 2
          /\ \A k \in 1..Len(emitted) :
                emitted[k].event = "public-rooms" => emitted[k].payload = PublicWaiting)
    /\ [][\A r \in DOMAIN rooms :
             /\ (rooms[r].status # "waiting" /\ \E i \in getPublicRooms(rooms') : i.id = r)
                  => \E c \in Conns, n \in Names : CreateRoom(c, r, TRUE, n)
             /\ \A c \in Conns, n \in Names :
                  (JoinRoom(c, r, n) /\ rooms[r].isPublic /\ rooms' # rooms)
                  => \E k \in 1..Len(emitted') :
                        /\ emitted'[k].event = "public-rooms"
                        /\ emitted'[k].to = ToAll
                        /\ \A i \in emitted'[k].payload : i.id # r
       ]_vars

\* the broadcast of a join into a public room, which lists another public
\* room that is still waiting
C9_Witness ==
    /\ \E r \in DOMAIN rooms :
          /\ rooms[r].isPublic
          /\ Len(rooms[r].players) = 2
    /\ Len(emitted) = 3
    /\ emitted[1].event = "room-joined"
    /\ emitted[3].event = "public-rooms"
    /\ emitted[3].payload # {}

(***************************************************************************)
(* C10. join-room(roomId) adds the caller exactly when the room exists,    *)
(* has fewer than 2 players and is 'waiting'; otherwise it sends one       *)
(* 'error' to the caller alone, with 'Room not found' for an unknown id,   *)
(* else 'Room is full' for a room of 2 players, else 'Game already in      *)
(* progress', and the registry, the room and the Player records are        *)
(* unchanged and nothing else is sent.                                     *)
(***************************************************************************)
C10_JoinRoomOutcome ==
    [][\A c \in Conns : \A r \in DOMAIN asked : \A n \in Names :
          JoinRoom(c, r, n) =>
              IF /\ r \in DOMAIN rooms
                 /\ Len(rooms[r].players) < 2
                 /\ rooms[r].status = "waiting"
              THEN /\ r \in DOMAIN rooms'
                   /\ rooms'[r].players =
                        Append(rooms[r].players,
                               rooms'[r].players[Len(rooms[r].players) + 1])
                   /\ rooms'[r].players[Len(rooms[r].players) + 1].socketId = c
                   /\ emitted'[1] = Msg("room-joined", ToSocket(c), [roomId |-> r])
              ELSE /\ rooms' = rooms
                   /\ players' = players
                   /\ Len(emitted') = 1
                   /\ emitted'[1].event = "error"
                   /\ emitted'[1].to = ToSocket(c)
                   /\ emitted'[1].payload.message =
                        (IF r \notin DOMAIN rooms THEN "Room not found"
                         ELSE IF Len(rooms[r].players) = 2 THEN "Room is full"
                         ELSE "Game already in progress")
      ]_vars

\* join-room refused with 'Room is full' (the room has a game in progress too)
C10_Witness ==
    /\ Len(emitted) = 1
    /\ emitted[1].event = "error"
    /\ emitted[1].payload.message = "Room is full"
    /\ \E r \in DOMAIN rooms : Len(rooms[r].players) = 2

(***************************************************************************)
(* C11. In every reachable room the number of non-empty cells equals       *)
(* moves and moves is between 0 and 9; across a step the moves of a room   *)
(* id either stay, or grow by one in a make-move that makeMove accepted,   *)
(* or return to 0 in a request-rematch that set the room to reset(room),   *)
(* or are the 0 of a room newly constructed by create-room.                *)
(***************************************************************************)
C11_MovesCountCells ==
    /\ [](\A r \in DOMAIN rooms :
             /\ Filled(rooms[r].board) = rooms[r].moves
             /\ rooms[r].moves \in 0..9)
    /\ [][\A r \in (DOMAIN rooms) \cap (DOMAIN rooms') :
             \/ rooms'[r].moves = rooms[r].moves
             \/ /\ rooms'[r].moves = rooms[r].moves + 1
                /\ \E c \in Conns, i \in AllIndices :
                      /\ MakeMove(c, r, i)
                      /\ makeMove(rooms[r], i, c).ret
             \/ /\ rooms'[r].moves = 0
                /\ rooms'[r] = reset(rooms[r])
                /\ \E c \in Conns : RequestRematch(c, r)
             \/ /\ rooms'[r].moves = 0
                /\ \E c \in Conns, pub \in BOOLEAN, n \in Names :
                      /\ CreateRoom(c, r, pub, n)
                      /\ rooms'[r] = addPlayer(GameRoom(r, pub, c), c, n).room
         ]_vars

\* a rematch has just reset a two-player room: the only message is the
\* 'game-state' of a room that plays again with 0 moves
C11_Witness ==
    /\ Len(emitted) = 1
    /\ emitted[1].event = "game-state"
    /\ \E r \in DOMAIN rooms :
          /\ emitted[1].to = ToRoom(r)
          /\ Len(rooms[r].players) = 2
          /\ rooms[r].status = "playing"
          /\ rooms[r].moves = 0
          /\ Filled(rooms[r].board) = 0

(***************************************************************************)
(* C12 (as claimed). A create-room never binds an id that is in the room   *)
(* registry: every room of the registry is still there, unchanged, after   *)
(* a create-room.                                                          *)
(***************************************************************************)
C12_CreateRoomKeepsRooms ==
    [][\A c \in Conns, r \in DOMAIN asked, pub \in BOOLEAN, n \in Names :
          CreateRoom(c, r, pub, n) =>
              \A x \in DOMAIN rooms : x \in DOMAIN rooms' /\ rooms'[x] = rooms[x]
      ]_vars

(***************************************************************************)
(* C13 (as claimed). For a connection c whose Player record is bound to a  *)
(* room, disconnect(c) leaves the room registry as leave-room(c) would     *)
(* and emits the messages leave-room(c) would, and deletes c's Player      *)
(* record.                                                                 *)
(***************************************************************************)
C13_DisconnectAsLeaveRoom ==
    [][\A c \in Conns :
          (/\ Disconnect(c)
           /\ c \in DOMAIN players
           /\ players[c].roomId # NullRoomId)
          => /\ rooms' = LeaveRoomEffect(c).rooms
             /\ emitted' = LeaveRoomEffect(c).emitted
             /\ players' = MapDelete(players, c)
      ]_vars

(***************************************************************************)
(* C14 (as claimed). After disconnect(c), from any reachable state, no     *)
(* room of the registry has a player entry of c, and a room whose only     *)
(* player was c is not in the registry.                                    *)
(***************************************************************************)
C14_DisconnectRemovesEntries ==
    [][\A c \in Conns :
          Disconnect(c) =>
              /\ \A r \in DOMAIN rooms' : c \notin Members(rooms'[r])
              /\ \A r \in DOMAIN rooms :
                    Members(rooms[r]) = {c} => r \notin DOMAIN rooms'
      ]_vars

(***************************************************************************)
(* C15. A make-move (on a cell or on an index past either end of the       *)
(* board) sends one 'game-state' to the room, carrying the room after the  *)
(* move, exactly when the room id is in the registry and makeMove          *)
(* accepted the move; a rejected move, and a move on a room id that is not *)
(* in the registry, send nothing and change no room and no Player record.  *)
(***************************************************************************)
C15_MoveBroadcast ==
    [][\A c \in Conns, r \in DOMAIN asked, i \in MoveIndices :
          MakeMove(c, r, i) =>
              IF r \in DOMAIN rooms /\ makeMove(rooms[r], i, c).ret
              THEN /\ LegalMove(rooms[r], i, c)
                   /\ rooms' = [rooms EXCEPT ![r] = makeMove(rooms[r], i, c).room]
                   /\ emitted' = << Msg("game-state", ToRoom(r), RoomState(rooms'[r])) >>
                   /\ players' = players
              ELSE /\ emitted' = <<>>
                   /\ rooms' = rooms
                   /\ players' = players
      ]_vars

\* a move was just rejected in a game under way: nothing was sent
C15_Witness ==
    /\ emitted = <<>>
    /\ \E r \in DOMAIN rooms :
          /\ rooms[r].status = "playing"
          /\ rooms[r].moves > 0

(***************************************************************************)
(* C16 (as claimed). When a room is finished with two players, both        *)
(* connected, and a player issues request-rematch after which both         *)
(* players have asked for a rematch of this finished game, that handler    *)
(* resets the room (9 empty cells, currentPlayer X, no winner, 0 moves,    *)
(* playing), leaves both players' ready flags false and sends a            *)
(* 'game-state' to the room.                                               *)
(***************************************************************************)
C16_BothAskedResets ==
    [][\A c \in Conns : \A r \in DOMAIN rooms :
          (/\ RequestRematch(c, r)
           /\ rooms[r].status = "finished"
           /\ Len(rooms[r].players) = 2
           /\ c \in Members(rooms[r])
           /\ \A x \in Members(rooms[r]) : Open(x)
           /\ Members(rooms[r]) \subseteq asked[r] \cup {c})
          => /\ r \in DOMAIN rooms'
             /\ rooms'[r].board = EmptyBoard
             /\ rooms'[r].currentPlayer = "X"
             /\ rooms'[r].winner = Null
             /\ rooms'[r].moves = 0
             /\ rooms'[r].status = "playing"
             /\ \A x \in Members(rooms[r]) :
                   x \in DOMAIN players' => ~players'[x].readyForRematch
             /\ emitted' = << Msg("game-state", ToRoom(r), RoomState(rooms'[r])) >>
      ]_vars

\* a room with one player whose game has started (the other player left)
LoneStarted(room) ==
    /\ Len(room.players) = 1
    /\ room.status \in {"playing", "finished"}

(***************************************************************************)
(* C17 (as claimed). A room left with one player in 'playing' or           *)
(* 'finished' can be rejoined: while another connection is open, a         *)
(* join-room of that connection for the room can succeed and give the      *)
(* room two players again.                                                 *)
(***************************************************************************)
C17_RejoinPossible ==
    \A r \in DOMAIN rooms :
        (/\ LoneStarted(rooms[r])
         /\ \E c \in Conns \ Members(rooms[r]) : Open(c))
        => ENABLED (\E c \in Conns \ Members(rooms[r]), n \in Names :
                       /\ JoinRoom(c, r, n)
                       /\ Len(rooms'[r].players) = 2)

(***************************************************************************)
(* C17 (amended). A room left with one player in 'playing' or 'finished'   *)
(* cannot be rejoined: every join-room for it is refused with 'Game        *)
(* already in progress' and changes nothing, and after any event the room  *)
(* is either gone from the registry, or still holds that one player with   *)
(* a started game, or has been replaced by the new room of a create-room   *)
(* that drew its id.                                                       *)
(***************************************************************************)
C17_NoRejoin ==
    [][\A r \in DOMAIN rooms :
          LoneStarted(rooms[r]) =>
              /\ \A c \in Conns, n \in Names :
                    JoinRoom(c, r, n) =>
                        /\ rooms' = rooms
                        /\ players' = players
                        /\ emitted' = ErrorTo(c, "Game already in progress")
              /\ \/ r \notin DOMAIN rooms'
                 \/ /\ LoneStarted(rooms'[r])
                    /\ rooms'[r].players = rooms[r].players
                 \/ \E c \in Conns, pub \in BOOLEAN, n \in Names :
                       /\ CreateRoom(c, r, pub, n)
                       /\ rooms'[r] = addPlayer(GameRoom(r, pub, c), c, n).room
      ]_vars

\* a join-room for a one-player room with a started game was just refused
C17_Witness ==
    /\ Len(emitted) = 1
    /\ emitted[1].event = "error"
    /\ emitted[1].payload.message = "Game already in progress"
    /\ \E r \in DOMAIN rooms : LoneStarted(rooms[r]) /\ rooms[r].moves > 0

(***************************************************************************)
(* C18 (as claimed). In every reachable state no connection id occurs      *)
(* more than once in the player list of a room.                            *)
(***************************************************************************)
C18_OneSeatEach ==
    \A r \in DOMAIN rooms :
        \A j, k \in 1..Len(rooms[r].players) :
            rooms[r].players[j].socketId = rooms[r].players[k].socketId => j = k

(***************************************************************************)
(* C19 (as claimed). In every reachable state each connection is in the    *)
(* player list of at most one room, and a connection is in the player      *)
(* list of a room exactly when its Player record exists with the id of     *)
(* that room as roomId.                                                    *)
(***************************************************************************)
C19_RecordTracksMembership ==
    \A c \in Conns :
        /\ Cardinality({r \in DOMAIN rooms : c \in Members(rooms[r])}) <= 1
        /\ \A r \in DOMAIN rooms :
              c \in Members(rooms[r])
                 <=> (c \in DOMAIN players /\ players[c].roomId = r)

\* the number of cells of board that hold mark
CountOf(board, mark) == Cardinality({x \in 1..9 : board[x] = mark})

(***************************************************************************)
(* C20. In every reachable room: the status is 'finished' exactly when     *)
(* the winner is set or moves is 9; a winner that is set holds a complete  *)
(* line of the board; the X cells are as many as the O cells or one more;  *)
(* while the status is 'playing' currentPlayer is X exactly when the two   *)
(* counts are equal; and moves never exceeds 9.                            *)
(***************************************************************************)
C20_GameShape ==
    \A r \in DOMAIN rooms :
        LET room == rooms[r]
            nx == CountOf(room.board, "X")
            no == CountOf(room.board, "O")
        IN /\ room.status = "finished" <=> (room.winner # Null \/ room.moves = 9)
           /\ room.winner # Null =>
                 room.winner \in Marks /\ HasLine(room.board, room.winner)
           /\ nx - no \in {0, 1}
           /\ room.status = "playing" => (room.currentPlayer = "X" <=> nx = no)
           /\ room.moves <= 9

\* a game that O has won
C20_Witness ==
    \E r \in DOMAIN rooms :
        /\ rooms[r].status = "finished"
        /\ rooms[r].winner = "O"
        /\ HasLine(rooms[r].board, "O")

====
